---- MODULE Spec2Model ----
(***************************************************************************)
(* Model of src/main.py (SrotApp): the login / task / countdown / launch   *)
(* controller, its two remote validators, the QSettings session store and  *)
(* the TimerWindow countdown.                                              *)
(*                                                                         *)
(* Text is modelled as sequences of one-character strings, so that         *)
(* str.strip(), str.upper(), len() and the line-edit validator are         *)
(* computed character by character.                                        *)
(***************************************************************************)
EXTENDS Integers, Sequences, FiniteSets, TLC

VARIABLES
    running,          \* the QApplication of this process is executing
    window,           \* the window of this process that is shown
    task_id_input,    \* text of TaskWindow.task_id_input
    countdown_seconds,\* TimerWindow.countdown_seconds
    timer_active,     \* TimerWindow.timer (QTimer, 1000 ms) is running
    go_pending,       \* the QTimer.singleShot(1000, finish_countdown) is armed
    lambda_task_id,   \* task_id captured by the countdown_finished lambda
    store,            \* QSettings("MyCompany", "SrotApp"): key -> value
    other_pc,         \* a second running instance of the application
    other_fullname,   \* the fullname the second instance is about to save
    ev,               \* what the last handler did (calls, message, launch)
    validated,        \* history: pair accepted by the last assignment check
    identity_valid,   \* history: identity Valid and no logout since
    cd_duration,      \* history: seconds the running countdown started with
    cd_ticks,         \* history: update_timer firings of this countdown
    cd_emitted,       \* history: countdown_finished emissions of this countdown
    launches,         \* history: recorder processes spawned by this run
    session_launches, \* history: recorder processes spawned since the login
    logged_out        \* history: a logout happened and no login since

vars == <<running, window, task_id_input, countdown_seconds, timer_active,
          go_pending, lambda_task_id, store, other_pc, other_fullname, ev,
          validated, identity_valid, cd_duration, cd_ticks, cd_emitted,
          launches, session_launches, logged_out>>

-----------------------------------------------------------------------------
(* Bounds of the model *)

MaxUserLen == 3
MaxDuration == 5
MaxLaunches == 2

(* Program constants *)

TaskIdLen == 10
CountdownStart == 3

-----------------------------------------------------------------------------
(* Characters and text *)

Whitespace == {" "}
UpperOf == [c \in {"a", "A", "1", " "} |->
               IF c = "a" THEN "A" ELSE c]
Alnum == {"a", "A", "1"}

UserChars == {" ", "a"}
TypedChars == {"a", " "}

SeqsUpTo(S, n) == UNION {[1..k -> S] : k \in 0..n}

RECURSIVE LStrip(_)
LStrip(s) ==
    IF s = <<>> THEN s
    ELSE IF Head(s) \in Whitespace THEN LStrip(Tail(s)) ELSE s

RECURSIVE RStrip(_)
RStrip(s) ==
    IF s = <<>> THEN s
    ELSE IF s[Len(s)] \in Whitespace THEN RStrip(SubSeq(s, 1, Len(s) - 1)) ELSE s

(* Faulty variant of strip: the input is used as typed *)
strip_none(s) == s

strip(s) == RStrip(LStrip(s))

upper(s) == [i \in 1..Len(s) |-> UpperOf[s[i]]]

(* dict.get(key, default) and QSettings.value(key, default) *)
Get(d, k, default) == IF k \in DOMAIN d THEN d[k] ELSE default

(* QSettings.setValue(key, value) and QSettings.remove(key) *)
setValue(s, k, v) == [x \in (DOMAIN s) \cup {k} |-> IF x = k THEN v ELSE s[x]]
remove(s, k) == [x \in (DOMAIN s) \ {k} |-> s[x]]

EmptyStore == [x \in {} |-> <<>>]

-----------------------------------------------------------------------------
(* Remote responses.  A response is a transport exception (timeout, refused *)
(* connection, DNS failure) or an HTTP answer with a status code and a JSON *)
(* object.  JSON values are written as tokens: "true", "false", or a text.  *)

None == "None"
EmptyDict == [x \in {} |-> None]

JsonObjects(keys, values) ==
    {d \in UNION {[D -> UNION {values[k] : k \in keys}] : D \in SUBSET keys} :
        \A k \in DOMAIN d : d[k] \in values[k]}

(* Python truthiness of a decoded JSON value, and `value == True`: the     *)
(* number 1 compares equal to True, a non-empty string does not.            *)
Falsy == {"false", None, "", "0"}
EqTrue(v) == v \in {"true", "1"}

IdentityBodies ==
    JsonObjects({"status", "fullname", "message"},
                [status |-> {"success", "error"},
                 fullname |-> {"Alice A"},
                 message |-> {"Invalid username"}])

AssignmentBodies ==
    JsonObjects({"status", "error", "is_assigned", "message"},
                [status |-> {"success", "error"},
                 error |-> {"true", "false"},
                 is_assigned |-> {"true", "false"},
                 message |-> {"Task is not assigned to the user. (remote)"}])

(* Bodies whose flags also take the values a JSON document can give them   *)
(* besides true and false: null, the numbers 1 and 0, a string.             *)
WideAssignmentBodies ==
    JsonObjects({"status", "error", "is_assigned", "message"},
                [status |-> {"success", "error"},
                 error |-> {"true", "false", None},
                 is_assigned |-> {"true", "false", "1", "0", "yes", None},
                 message |-> {"Task is not assigned to the user. (remote)"}])

ErrorStatusCodes == {404, 401, 403, 500}

Responses(bodies) ==
    {[kind |-> "exception", status_code |-> 0, data |-> EmptyDict]}
    \cup {[kind |-> "http", status_code |-> c, data |-> d] :
             c \in ErrorStatusCodes, d \in {EmptyDict, [status |-> "success"]}}
    \cup {[kind |-> "http", status_code |-> 200, data |-> d] : d \in bodies}

(* Response.raise_for_status(): HTTPError for 4xx and 5xx *)
raise_for_status(resp) == resp.status_code >= 400 /\ resp.status_code < 600

(* Faulty variant of user_exists_in_db: raise_for_status() is left out and *)
(* the body of an error response is read like any other                     *)
user_exists_in_db_reads_error_body(user_id, resp) ==
    IF resp.kind = "exception"
    THEN [ok |-> FALSE,
          result |-> "Unable to connect to the server. Please try again later."]
    ELSE IF Get(resp.data, "status", None) = "success"
    THEN [ok |-> TRUE, result |-> Get(resp.data, "fullname", "N/A")]
    ELSE [ok |-> FALSE,
          result |-> Get(resp.data, "message", "Unknown error occurred.")]

user_exists_in_db(user_id, resp) ==
    IF resp.kind = "exception"
    THEN [ok |-> FALSE,
          result |-> "Unable to connect to the server. Please try again later."]
    ELSE IF raise_for_status(resp)
    THEN IF resp.status_code = 404
         THEN [ok |-> FALSE, result |-> "User not found."]
         ELSE IF resp.status_code \in {401, 403}
         THEN [ok |-> FALSE, result |-> "Unauthorized access."]
         ELSE [ok |-> FALSE,
               result |-> "An error occurred while verifying the user."]
    ELSE IF Get(resp.data, "status", None) = "success"
    THEN [ok |-> TRUE, result |-> Get(resp.data, "fullname", "N/A")]
    ELSE [ok |-> FALSE,
          result |-> Get(resp.data, "message", "Unknown error occurred.")]

(* Faulty variant of check_task_assignment: is_assigned is tested for      *)
(* truthiness instead of being compared with True                           *)
check_task_assignment_truthy(user_id, task_id, resp) ==
    IF resp.kind = "exception"
    THEN [ok |-> FALSE,
          result |-> "Unable to connect to the server. Please try again later."]
    ELSE IF raise_for_status(resp)
    THEN IF resp.status_code = 404
         THEN [ok |-> FALSE, result |-> "Task not found."]
         ELSE IF resp.status_code \in {401, 403}
         THEN [ok |-> FALSE, result |-> "Unauthorized access."]
         ELSE [ok |-> FALSE,
               result |-> "An error occurred while verifying task assignment."]
    ELSE IF /\ Get(resp.data, "status", None) = "success"
            /\ Get(resp.data, "error", None) \in Falsy
            /\ Get(resp.data, "is_assigned", None) \notin Falsy
    THEN [ok |-> TRUE,
          result |-> "Task assignment is valid. Proceeding with recording."]
    ELSE IF Get(resp.data, "is_assigned", "false") \in Falsy
    THEN [ok |-> FALSE,
          result |-> Get(resp.data, "message",
                         "Task is not assigned to the user.")]
    ELSE [ok |-> FALSE,
          result |-> Get(resp.data, "message",
                         "Task assignment check failed or invalid response.")]

(* Faulty variant of check_task_assignment: the message of the response is *)
(* not used                                                                 *)
check_task_assignment_own_message(user_id, task_id, resp) ==
    IF resp.kind = "exception"
    THEN [ok |-> FALSE,
          result |-> "Unable to connect to the server. Please try again later."]
    ELSE IF raise_for_status(resp)
    THEN IF resp.status_code = 404
         THEN [ok |-> FALSE, result |-> "Task not found."]
         ELSE IF resp.status_code \in {401, 403}
         THEN [ok |-> FALSE, result |-> "Unauthorized access."]
         ELSE [ok |-> FALSE,
               result |-> "An error occurred while verifying task assignment."]
    ELSE IF /\ Get(resp.data, "status", None) = "success"
            /\ Get(resp.data, "error", None) \in Falsy
            /\ EqTrue(Get(resp.data, "is_assigned", None))
    THEN [ok |-> TRUE,
          result |-> "Task assignment is valid. Proceeding with recording."]
    ELSE IF Get(resp.data, "is_assigned", "false") \in Falsy
    THEN [ok |-> FALSE, result |-> "Task is not assigned to the user."]
    ELSE [ok |-> FALSE,
          result |-> "Task assignment check failed or invalid response."]

check_task_assignment(user_id, task_id, resp) ==
    IF resp.kind = "exception"
    THEN [ok |-> FALSE,
          result |-> "Unable to connect to the server. Please try again later."]
    ELSE IF raise_for_status(resp)
    THEN IF resp.status_code = 404
         THEN [ok |-> FALSE, result |-> "Task not found."]
         ELSE IF resp.status_code \in {401, 403}
         THEN [ok |-> FALSE, result |-> "Unauthorized access."]
         ELSE [ok |-> FALSE,
               result |-> "An error occurred while verifying task assignment."]
    ELSE IF /\ Get(resp.data, "status", None) = "success"
            /\ Get(resp.data, "error", None) \in Falsy
            /\ EqTrue(Get(resp.data, "is_assigned", None))
    THEN [ok |-> TRUE,
          result |-> "Task assignment is valid. Proceeding with recording."]
    ELSE IF Get(resp.data, "is_assigned", "false") \in Falsy
    THEN [ok |-> FALSE,
          result |-> Get(resp.data, "message",
                         "Task is not assigned to the user.")]
    ELSE [ok |-> FALSE,
          result |-> Get(resp.data, "message",
                         "Task assignment check failed or invalid response.")]

-----------------------------------------------------------------------------
(* What the last step did: the handler, the text it read from its input    *)
(* field, the remote calls it issued, the response each got, what the       *)
(* validator returned, the message box it showed, and the outcome and       *)
(* arguments of the launch.                                                 *)

Event(op) ==
    [op |-> op, input |-> <<>>, calls |-> <<>>, resp |-> <<>>, ret |-> <<>>,
     box |-> "none", msg |-> "", launcher |-> "none", argv |-> <<>>]

Min(a, b) == IF a < b THEN a ELSE b

UserRequest(user_id) ==
    [api |-> "api-user-validity", username |-> user_id, T_ID |-> <<>>]

TaskRequest(user_id, task_id) ==
    [api |-> "check_task_assignment", username |-> user_id, T_ID |-> task_id]

NoPair == <<>>

(* QRegularExpressionValidator(r"^[A-Za-z0-9]{0,10}$") *)
validator(text) ==
    /\ Len(text) <= TaskIdLen
    /\ \A i \in 1..Len(text) : text[i] \in Alnum

RawUserIds == SeqsUpTo(UserChars, MaxUserLen)
UserIds == {strip(r) : r \in RawUserIds} \ {<<>>}
FullNames == {"Alice A", "N/A"}
TenA == [i \in 1..TaskIdLen |-> "A"]

other_vars == <<other_pc, other_fullname>>
timer_vars == <<countdown_seconds, timer_active, go_pending, lambda_task_id>>
cd_vars == <<cd_duration, cd_ticks, cd_emitted>>
hist_vars == <<validated, identity_valid, launches, session_launches, logged_out>>

-----------------------------------------------------------------------------
(* State after installation: no process runs and nothing is persisted.     *)

Init ==
    /\ running = FALSE
    /\ window = "none"
    /\ task_id_input = <<>>
    /\ countdown_seconds = 0
    /\ timer_active = FALSE
    /\ go_pending = FALSE
    /\ lambda_task_id = <<>>
    /\ store = EmptyStore
    /\ other_pc = "off"
    /\ other_fullname = ""
    /\ ev = Event("none")
    /\ validated = NoPair
    /\ identity_valid = FALSE
    /\ cd_duration = 0
    /\ cd_ticks = 0
    /\ cd_emitted = 0
    /\ launches = 0
    /\ session_launches = 0
    /\ logged_out = FALSE

(* Faulty variant of main: the saved session is ignored and the login      *)
(* window is always shown                                                   *)
main_ignores_session ==
    /\ ~running
    /\ running' = TRUE
    /\ window' = "LoginWindow"
    /\ task_id_input' = <<>>
    /\ ev' = Event("main")
    /\ validated' = NoPair
    /\ launches' = 0
    /\ cd_duration' = 0 /\ cd_ticks' = 0 /\ cd_emitted' = 0
    /\ UNCHANGED <<timer_vars, store, other_vars, identity_valid,
                   session_launches, logged_out>>

(* main(): show TaskWindow when a username is saved, LoginWindow otherwise *)
main ==
    /\ ~running
    /\ running' = TRUE
    /\ LET saved_user == Get(store, "username", <<>>)
       IN  window' = IF saved_user # <<>> THEN "TaskWindow" ELSE "LoginWindow"
    /\ task_id_input' = <<>>
    /\ ev' = Event("main")
    /\ validated' = NoPair
    /\ launches' = 0
    /\ cd_duration' = 0 /\ cd_ticks' = 0 /\ cd_emitted' = 0
    /\ UNCHANGED <<timer_vars, store, other_vars, identity_valid,
                   session_launches, logged_out>>

(* QApplication.quit(): the Quit buttons, the tray menu, the last window closed *)
quit ==
    /\ running
    /\ running' = FALSE
    /\ window' = "none"
    /\ task_id_input' = <<>>
    /\ countdown_seconds' = 0
    /\ timer_active' = FALSE
    /\ go_pending' = FALSE
    /\ lambda_task_id' = <<>>
    /\ ev' = Event("quit")
    /\ UNCHANGED <<store, other_vars, hist_vars, cd_vars>>

(* on_login_clicked, the branch `if not user_id` *)
on_login_empty(raw) ==
    /\ ev' = [Event("on_login_clicked") EXCEPT
                 !.input = raw,
                 !.box = "warning",
                 !.msg = "User ID cannot be empty."]
    /\ UNCHANGED <<window, task_id_input, store, identity_valid,
                   session_launches, logged_out>>

(* Faulty variant of on_login_exists: saves the text as typed, not the trimmed id *)
on_login_exists_saves_raw(raw, user_id, resp, r) ==
    /\ store' = setValue(setValue(store, "username", raw),
                         "fullname", r.result)
    /\ window' = "TaskWindow"
    /\ task_id_input' = <<>>
    /\ identity_valid' = TRUE
    /\ session_launches' = 0
    /\ logged_out' = FALSE
    /\ ev' = [Event("on_login_clicked") EXCEPT
                 !.input = raw,
                 !.calls = <<UserRequest(user_id)>>,
                 !.resp = <<resp>>,
                 !.ret = <<r>>]

(* on_login_clicked, the branch `if exists`: save the session, show a new  *)
(* TaskWindow, hide the login window                                       *)
on_login_exists(raw, user_id, resp, r) ==
    /\ store' = setValue(setValue(store, "username", user_id),
                         "fullname", r.result)
    /\ window' = "TaskWindow"
    /\ task_id_input' = <<>>
    /\ identity_valid' = TRUE
    /\ session_launches' = 0
    /\ logged_out' = FALSE
    /\ ev' = [Event("on_login_clicked") EXCEPT
                 !.input = raw,
                 !.calls = <<UserRequest(user_id)>>,
                 !.resp = <<resp>>,
                 !.ret = <<r>>]

(* Faulty variant of on_login_invalid: the username is saved before the outcome is *)
(* looked at *)
on_login_invalid_saves_username(raw, user_id, resp, r) ==
    /\ store' = setValue(store, "username", user_id)
    /\ ev' = [Event("on_login_clicked") EXCEPT
                 !.input = raw,
                 !.calls = <<UserRequest(user_id)>>,
                 !.resp = <<resp>>,
                 !.ret = <<r>>,
                 !.box = "warning",
                 !.msg = r.result]
    /\ UNCHANGED <<window, task_id_input, identity_valid,
                   session_launches, logged_out>>

(* on_login_clicked, the branch `else`: show the error message *)
on_login_invalid(raw, user_id, resp, r) ==
    /\ ev' = [Event("on_login_clicked") EXCEPT
                 !.input = raw,
                 !.calls = <<UserRequest(user_id)>>,
                 !.resp = <<resp>>,
                 !.ret = <<r>>,
                 !.box = "warning",
                 !.msg = r.result]
    /\ UNCHANGED <<window, task_id_input, store, identity_valid,
                   session_launches, logged_out>>

(* LoginWindow.on_login_clicked with the text of user_id_input and the     *)
(* answer of the identity check                                            *)
on_login_clicked(raw, resp) ==
    /\ running /\ window = "LoginWindow"
    /\ LET user_id == strip(raw)
           r == user_exists_in_db(user_id, resp)
       IN  IF user_id = <<>> THEN on_login_empty(raw)
           ELSE IF r.ok THEN on_login_exists(raw, user_id, resp, r)
           ELSE on_login_invalid(raw, user_id, resp, r)
    /\ UNCHANGED <<running, timer_vars, other_vars, validated, cd_vars, launches>>

(* Faulty variant of convert_to_uppercase: the text is left as typed *)
convert_to_uppercase_as_typed(text) == text

(* TaskWindow.convert_to_uppercase, connected to textChanged *)
convert_to_uppercase(text) == upper(text)

(* A key typed into task_id_input: the validator accepts or drops it, and  *)
(* textChanged rewrites the accepted text                                  *)
type_char(c) ==
    /\ running /\ window = "TaskWindow"
    /\ LET text == Append(task_id_input, c)
       IN  task_id_input' = IF validator(text)
                            THEN convert_to_uppercase(text)
                            ELSE task_id_input
    /\ ev' = Event("edit")
    /\ UNCHANGED <<running, window, timer_vars, store, other_vars, hist_vars,
                   cd_vars>>

backspace ==
    /\ running /\ window = "TaskWindow"
    /\ task_id_input # <<>>
    /\ task_id_input' = convert_to_uppercase(
                            SubSeq(task_id_input, 1, Len(task_id_input) - 1))
    /\ ev' = Event("edit")
    /\ UNCHANGED <<running, window, timer_vars, store, other_vars, hist_vars,
                   cd_vars>>

(* TimerWindow.__init__, initUI and start_countdown *)
TimerWindow(n) ==
    /\ countdown_seconds' = n
    /\ timer_active' = TRUE
    /\ go_pending' = FALSE
    /\ cd_duration' = n
    /\ cd_ticks' = 0
    /\ cd_emitted' = 0

(* on_start_clicked, the branch `if len(task_id) != 10` *)
on_start_bad_length ==
    /\ ev' = [Event("on_start_clicked") EXCEPT
                 !.input = task_id_input,
                 !.box = "warning",
                 !.msg = "Task ID must be exactly 10 alphanumeric characters."]
    /\ UNCHANGED <<window, timer_vars, validated, cd_vars>>

(* Faulty variant of on_start_no_user: the `return` after the message is   *)
(* left out and the submit goes on with an empty user id                    *)
on_start_no_user_without_return ==
    /\ window' = "TimerWindow"
    /\ TimerWindow(CountdownStart)
    /\ lambda_task_id' = strip(task_id_input)
    /\ validated' = NoPair
    /\ ev' = [Event("on_start_clicked") EXCEPT
                 !.input = task_id_input,
                 !.calls = <<TaskRequest(<<>>, strip(task_id_input))>>,
                 !.box = "critical",
                 !.msg = "User ID not found. Please login again."]

(* on_start_clicked, the branch `if not user_id` *)
on_start_no_user ==
    /\ ev' = [Event("on_start_clicked") EXCEPT
                 !.input = task_id_input,
                 !.box = "critical",
                 !.msg = "User ID not found. Please login again."]
    /\ UNCHANGED <<window, timer_vars, validated, cd_vars>>

(* Faulty variant of on_start_valid: self.hide() is left out and the task  *)
(* window stays in front while the countdown runs                           *)
on_start_valid_keeps_task_window(user_id, task_id, resp, r) ==
    /\ window' = "TaskWindow"
    /\ TimerWindow(CountdownStart)
    /\ lambda_task_id' = task_id
    /\ validated' = <<user_id, task_id>>
    /\ ev' = [Event("on_start_clicked") EXCEPT
                 !.input = task_id_input,
                 !.calls = <<TaskRequest(user_id, task_id)>>,
                 !.resp = <<resp>>,
                 !.ret = <<r>>]

(* on_start_clicked, the branch `if valid`: hide the task window, show the *)
(* countdown and connect countdown_finished to the launch of task_id       *)
on_start_valid(user_id, task_id, resp, r) ==
    /\ window' = "TimerWindow"
    /\ TimerWindow(CountdownStart)
    /\ lambda_task_id' = task_id
    /\ validated' = <<user_id, task_id>>
    /\ ev' = [Event("on_start_clicked") EXCEPT
                 !.input = task_id_input,
                 !.calls = <<TaskRequest(user_id, task_id)>>,
                 !.resp = <<resp>>,
                 !.ret = <<r>>]

(* Faulty variant of on_start_invalid: the message is shown and the countdown is   *)
(* started all the same *)
on_start_invalid_starts_countdown(user_id, task_id, resp, r) ==
    /\ window' = "TimerWindow"
    /\ TimerWindow(CountdownStart)
    /\ lambda_task_id' = task_id
    /\ validated' = NoPair
    /\ ev' = [Event("on_start_clicked") EXCEPT
                 !.input = task_id_input,
                 !.calls = <<TaskRequest(user_id, task_id)>>,
                 !.resp = <<resp>>,
                 !.ret = <<r>>,
                 !.box = "critical",
                 !.msg = r.result]

(* on_start_clicked, the branch `else`: show the error message *)
on_start_invalid(user_id, task_id, resp, r) ==
    /\ ev' = [Event("on_start_clicked") EXCEPT
                 !.input = task_id_input,
                 !.calls = <<TaskRequest(user_id, task_id)>>,
                 !.resp = <<resp>>,
                 !.ret = <<r>>,
                 !.box = "critical",
                 !.msg = r.result]
    /\ validated' = NoPair
    /\ UNCHANGED <<window, timer_vars, cd_vars>>

(* Faulty variant of on_start_clicked: only an empty task id is rejected locally *)
on_start_clicked_rejects_only_empty(resp) ==
    /\ running /\ window = "TaskWindow"
    /\ LET task_id == strip(task_id_input)
           user_id == Get(store, "username", <<>>)
           r == check_task_assignment(user_id, task_id, resp)
       IN  IF Len(task_id) = 0 THEN on_start_bad_length
           ELSE IF user_id = <<>> THEN on_start_no_user
           ELSE IF r.ok THEN on_start_valid(user_id, task_id, resp, r)
           ELSE on_start_invalid(user_id, task_id, resp, r)
    /\ UNCHANGED <<running, task_id_input, store, other_vars, identity_valid,
                   launches, session_launches, logged_out>>

(* TaskWindow.on_start_clicked with the answer of the assignment check *)
on_start_clicked(resp) ==
    /\ running /\ window = "TaskWindow"
    /\ LET task_id == strip(task_id_input)
           user_id == Get(store, "username", <<>>)
           r == check_task_assignment(user_id, task_id, resp)
       IN  IF Len(task_id) # TaskIdLen THEN on_start_bad_length
           ELSE IF user_id = <<>> THEN on_start_no_user
           ELSE IF r.ok THEN on_start_valid(user_id, task_id, resp, r)
           ELSE on_start_invalid(user_id, task_id, resp, r)
    /\ UNCHANGED <<running, task_id_input, store, other_vars, identity_valid,
                   launches, session_launches, logged_out>>

(* Faulty variant of update_timer: counts down to 0 instead of stopping at 1 *)
update_timer_to_zero ==
    /\ running /\ window = "TimerWindow" /\ timer_active
    /\ IF countdown_seconds > 0
       THEN /\ countdown_seconds' = countdown_seconds - 1
            /\ UNCHANGED <<timer_active, go_pending>>
       ELSE /\ timer_active' = FALSE
            /\ go_pending' = TRUE
            /\ UNCHANGED countdown_seconds
    /\ cd_ticks' = cd_ticks + 1
    /\ ev' = Event("update_timer")
    /\ UNCHANGED <<running, window, task_id_input, lambda_task_id, store,
                   other_vars, hist_vars, cd_duration, cd_emitted>>

(* Faulty variant of update_timer: the last tick stops the timer and does  *)
(* not arm the delayed finish_countdown                                     *)
update_timer_without_go ==
    /\ running /\ window = "TimerWindow" /\ timer_active
    /\ IF countdown_seconds > 1
       THEN /\ countdown_seconds' = countdown_seconds - 1
            /\ UNCHANGED <<timer_active, go_pending>>
       ELSE /\ timer_active' = FALSE
            /\ go_pending' = FALSE
            /\ UNCHANGED countdown_seconds
    /\ cd_ticks' = cd_ticks + 1
    /\ ev' = Event("update_timer")
    /\ UNCHANGED <<running, window, task_id_input, lambda_task_id, store,
                   other_vars, hist_vars, cd_duration, cd_emitted>>

(* TimerWindow.update_timer, on each timeout of the 1000 ms QTimer *)
update_timer ==
    /\ running /\ window = "TimerWindow" /\ timer_active
    /\ IF countdown_seconds > 1
       THEN /\ countdown_seconds' = countdown_seconds - 1
            /\ UNCHANGED <<timer_active, go_pending>>
       ELSE /\ timer_active' = FALSE
            /\ go_pending' = TRUE
            /\ UNCHANGED countdown_seconds
    /\ cd_ticks' = cd_ticks + 1
    /\ ev' = Event("update_timer")
    /\ UNCHANGED <<running, window, task_id_input, lambda_task_id, store,
                   other_vars, hist_vars, cd_duration, cd_emitted>>

(* Faulty variant of start_recording_script: a failure to start the        *)
(* recorder is swallowed without a message                                  *)
start_recording_script_silent(task_id, exists, popen_ok) ==
    LET user_id == Get(store, "username", <<>>)
    IN  IF ~exists
        THEN [Event("finish_countdown") EXCEPT
                 !.launcher = "not_found"]
        ELSE IF popen_ok
        THEN [Event("finish_countdown") EXCEPT
                 !.launcher = "spawned",
                 !.argv = <<task_id, user_id>>]
        ELSE [Event("finish_countdown") EXCEPT
                 !.launcher = "spawn_failed",
                 !.argv = <<task_id, user_id>>]

(* TaskWindow.start_recording_script: what it shows and what it spawns,    *)
(* given whether Record_Mac.py exists and whether Popen succeeds           *)
start_recording_script(task_id, exists, popen_ok) ==
    LET user_id == Get(store, "username", <<>>)
    IN  IF ~exists
        THEN [Event("finish_countdown") EXCEPT
                 !.box = "critical",
                 !.msg = "Recording script not found.",
                 !.launcher = "not_found"]
        ELSE IF popen_ok
        THEN [Event("finish_countdown") EXCEPT
                 !.launcher = "spawned",
                 !.argv = <<task_id, user_id>>]
        ELSE [Event("finish_countdown") EXCEPT
                 !.box = "critical",
                 !.msg = "Failed to start recording.",
                 !.launcher = "spawn_failed",
                 !.argv = <<task_id, user_id>>]

(* Faulty variant of window_after_countdown: the task window is shown again *)
window_after_countdown_task == "TaskWindow"

(* What finish_countdown leaves on screen: it closes the timer window, and *)
(* the task window hidden by on_start_clicked is not shown again           *)
window_after_countdown == "none"

(* TimerWindow.finish_countdown, one second after "Go!": closes the timer  *)
(* window and emits countdown_finished, whose slot is the lambda calling   *)
(* start_recording_script(task_id)                                         *)
finish_countdown(exists, popen_ok) ==
    /\ running /\ window = "TimerWindow" /\ go_pending
    /\ go_pending' = FALSE
    /\ window' = window_after_countdown
    /\ cd_emitted' = cd_emitted + 1
    /\ ev' = start_recording_script(lambda_task_id, exists, popen_ok)
    /\ launches' = IF ev'.launcher = "spawned" THEN launches + 1 ELSE launches
    /\ session_launches' = IF ev'.launcher = "spawned"
                           THEN Min(session_launches + 1, MaxLaunches)
                           ELSE session_launches
    /\ UNCHANGED <<running, task_id_input, countdown_seconds, timer_active,
                   lambda_task_id, store, other_vars, validated, identity_valid,
                   logged_out, cd_duration, cd_ticks>>

(* Faulty variants of clear_session: one of the two keys is left behind *)
clear_session_keeps_username(s) == remove(s, "fullname")

clear_session_keeps_fullname(s) == remove(s, "username")

(* on_logout_clicked: settings.remove("username"); settings.remove("fullname") *)
clear_session(s) == remove(remove(s, "username"), "fullname")

(* TaskWindow.on_logout_clicked *)
on_logout_clicked ==
    /\ running /\ window = "TaskWindow"
    /\ store' = clear_session(store)
    /\ window' = "LoginWindow"
    /\ task_id_input' = <<>>
    /\ identity_valid' = FALSE
    /\ session_launches' = 0
    /\ logged_out' = TRUE
    /\ ev' = Event("on_logout_clicked")
    /\ UNCHANGED <<running, timer_vars, other_vars, validated, cd_vars, launches>>

Next ==
    \/ main
    \/ quit
    \/ \E raw \in RawUserIds, resp \in Responses(IdentityBodies) :
           on_login_clicked(raw, resp)
    \/ \E c \in TypedChars : type_char(c)
    \/ backspace
    \/ \E resp \in Responses(AssignmentBodies) : on_start_clicked(resp)
    \/ update_timer
    \/ \E exists \in BOOLEAN, popen_ok \in BOOLEAN :
           finish_countdown(exists, popen_ok)
    \/ on_logout_clicked

Spec == Init /\ [][Next]_vars

-----------------------------------------------------------------------------
(* A second running instance of the application on the same QSettings.     *)
(* Only its effect on the shared store is modelled: it starts with main(), *)
(* saves a session after a Valid identity check (on_login_clicked) and     *)
(* removes it on logout (on_logout_clicked), one QSettings call at a time. *)

other_frame ==
    UNCHANGED <<running, window, task_id_input, timer_vars, validated,
                cd_vars, launches, session_launches>>

other_main ==
    /\ other_pc = "off"
    /\ other_pc' = IF Get(store, "username", <<>>) # <<>>
                   THEN "TaskWindow" ELSE "LoginWindow"
    /\ ev' = Event("other_main")
    /\ other_frame
    /\ UNCHANGED <<store, other_fullname, identity_valid, logged_out>>

(* settings.setValue("username", user_id) *)
other_login_username(user_id, fullname) ==
    /\ other_pc = "LoginWindow"
    /\ store' = setValue(store, "username", user_id)
    /\ other_fullname' = fullname
    /\ other_pc' = "setValue_fullname"
    /\ identity_valid' = TRUE
    /\ logged_out' = FALSE
    /\ ev' = Event("other_login")
    /\ other_frame

(* settings.setValue("fullname", fullname) *)
other_login_fullname ==
    /\ other_pc = "setValue_fullname"
    /\ store' = setValue(store, "fullname", other_fullname)
    /\ other_fullname' = ""
    /\ other_pc' = "TaskWindow"
    /\ ev' = Event("other_login")
    /\ other_frame
    /\ UNCHANGED <<identity_valid, logged_out>>

(* settings.remove("username") *)
other_logout_username ==
    /\ other_pc = "TaskWindow"
    /\ store' = remove(store, "username")
    /\ other_pc' = "remove_fullname"
    /\ identity_valid' = FALSE
    /\ logged_out' = TRUE
    /\ ev' = Event("other_logout")
    /\ other_frame
    /\ UNCHANGED other_fullname

(* settings.remove("fullname") *)
other_logout_fullname ==
    /\ other_pc = "remove_fullname"
    /\ store' = remove(store, "fullname")
    /\ other_pc' = "LoginWindow"
    /\ ev' = Event("other_logout")
    /\ other_frame
    /\ UNCHANGED <<other_fullname, identity_valid, logged_out>>

OtherNext ==
    \/ other_main
    \/ \E u \in UserIds, n \in FullNames : other_login_username(u, n)
    \/ other_login_fullname
    \/ other_logout_username
    \/ other_logout_fullname

NextShared == Next \/ OtherNext

(* Two instances of the application sharing the persisted settings *)
SpecShared == Init /\ [][NextShared]_vars

-----------------------------------------------------------------------------
(* The countdown on its own: a TimerWindow constructed with any positive   *)
(* duration, over a logged-in session and a validated task, driven by the  *)
(* Qt event loop, which delivers every armed timer while the application   *)
(* runs.                                                                   *)

InitTimer ==
    \E n \in 1..MaxDuration, u \in UserIds, f \in FullNames :
        /\ running = TRUE
        /\ window = "TimerWindow"
        /\ task_id_input = TenA
        /\ countdown_seconds = n
        /\ timer_active = TRUE
        /\ go_pending = FALSE
        /\ lambda_task_id = TenA
        /\ store = [username |-> u, fullname |-> f]
        /\ other_pc = "off"
        /\ other_fullname = ""
        /\ ev = Event("on_start_clicked")
        /\ validated = <<u, TenA>>
        /\ identity_valid = TRUE
        /\ cd_duration = n
        /\ cd_ticks = 0
        /\ cd_emitted = 0
        /\ launches = 0
        /\ session_launches = 0
        /\ logged_out = FALSE

NextTimer ==
    \/ update_timer
    \/ \E exists \in BOOLEAN, popen_ok \in BOOLEAN :
           finish_countdown(exists, popen_ok)

SpecTimer == InitTimer /\ [][NextTimer]_vars /\ WF_vars(NextTimer)

-----------------------------------------------------------------------------
(* Properties *)

LauncherCalled == ev.launcher # "none"
Username == Get(store, "username", <<>>)
ValidationFailed(e) == e.ret # <<>> /\ ~e.ret[1].ok
ValidationPassed(e) == e.ret # <<>> /\ e.ret[1].ok
NoCountdown == ~timer_active /\ ~go_pending /\ window # "TimerWindow"

(* C1: the recorder launcher is called only after an assignment validation *)
(* that returned Valid and after the countdown that validation started has *)
(* run to completion (three ticks, one completion notification); a task    *)
(* submit whose assignment validation fails starts no countdown and calls  *)
(* no launcher.                                                            *)
C1_LaunchOnlyAfterValidCountdown ==
    /\ [](LauncherCalled =>
            /\ validated # NoPair
            /\ cd_duration = CountdownStart
            /\ cd_ticks = cd_duration
            /\ cd_emitted = 1)
    /\ [][(ev'.op = "on_start_clicked" /\ ValidationFailed(ev')) =>
            /\ NoCountdown'
            /\ window' = "TaskWindow"
            /\ ev'.launcher = "none"
            /\ launches' = launches]_vars

C1_Witness ==
    /\ ev.launcher = "spawned"
    /\ validated # NoPair
    /\ cd_ticks = CountdownStart

(* C2: whenever the launcher is called its arguments are the task id and   *)
(* then the user id of the pair the assignment validation accepted, also   *)
(* when another instance writes the store during the countdown.            *)
C2_LaunchArgsAreValidatedPair ==
    ev.launcher \in {"spawned", "spawn_failed"} =>
        /\ validated # NoPair
        /\ ev.argv = <<validated[2], validated[1]>>

(* C3, as stated: after a launch the controller is back on the task screen *)
(* with the same session, ready for the next task submit.                  *)
C3_BackToTaskWindowAfterLaunch ==
    ev.launcher = "spawned" => (running /\ window = "TaskWindow")

(* C3, amended: a launch leaves the persisted session unchanged, but the   *)
(* task window hidden at the start of the countdown is not shown again, so *)
(* the run that launched can only quit and spawns at most one recorder; a  *)
(* restart of the process with the session still saved opens the task     *)
(* screen without a login, which is how further launches follow one login. *)
C3_OneLaunchPerRun ==
    /\ [](launches <= 1)
    /\ []((running /\ cd_emitted = 1) => window = "none")
    /\ [][(running /\ cd_emitted = 1) => ev'.op = "quit"]_vars
    /\ [][ev'.op = "finish_countdown" => store' = store]_vars
    /\ [][(ev'.op = "main" /\ Username # <<>>) =>
            (window' = "TaskWindow" /\ store' = store)]_vars

C3_Witness ==
    /\ ev.launcher = "spawned"
    /\ session_launches = 2
    /\ launches = 1

(* C4: the store holds a session (a non-empty username) exactly when an    *)
(* identity validation returned Valid and no logout happened since.        *)
C4_SessionIffIdentityValid ==
    (Username # <<>>) <=> identity_valid

C4_Witness ==
    /\ ev.op = "main"
    /\ window = "TaskWindow"
    /\ identity_valid
    /\ Username # <<>>

(* C5: a failed identity or assignment validation leaves the screen and    *)
(* the persisted fields as they were, starts no countdown, shows the       *)
(* validator's message, and issues exactly one remote call.                *)
C5_FailedValidationChangesNothing ==
    [][(ev'.op \in {"on_login_clicked", "on_start_clicked"}
          /\ ValidationFailed(ev')) =>
            /\ window' = window
            /\ window' = IF ev'.op = "on_login_clicked"
                         THEN "LoginWindow" ELSE "TaskWindow"
            /\ store' = store
            /\ running'
            /\ NoCountdown'
            /\ ev'.box # "none"
            /\ ev'.msg = ev'.ret[1].result
            /\ Len(ev'.calls) = 1
            /\ ev'.launcher = "none"]_vars

C5_Witness ==
    /\ ev.op = "on_start_clicked"
    /\ ValidationFailed(ev)
    /\ ev.msg = "Unable to connect to the server. Please try again later."
    /\ Username # <<>>

Spaces(n) == [i \in 1..n |-> " "]
AllWhitespace(t) == \A i \in 1..Len(t) : t[i] \in Whitespace

(* t is raw without the whitespace around it *)
IsTrimOf(t, raw) ==
    /\ t # <<>>
    /\ t[1] \notin Whitespace
    /\ t[Len(t)] \notin Whitespace
    /\ \E i \in 0..Len(raw), j \in 0..Len(raw) : raw = Spaces(i) \o t \o Spaces(j)

(* C6: when the identity validation of a submitted user id returns         *)
(* Valid(name), the task screen is shown and the store, read right after,  *)
(* holds the trimmed user id as username and that name as fullname.        *)
C6_ValidLoginSavesSession ==
    (ev.op = "on_login_clicked" /\ ValidationPassed(ev)) =>
        /\ running /\ window = "TaskWindow"
        /\ IsTrimOf(Username, ev.input)
        /\ ev.calls = <<UserRequest(Username)>>
        /\ "fullname" \in DOMAIN store
        /\ store["fullname"] = ev.ret[1].result

C6_Witness ==
    /\ ev.op = "on_login_clicked"
    /\ ValidationPassed(ev)
    /\ ev.input = <<" ", "a", " ">>
    /\ store = [username |-> <<"a">>, fullname |-> "Alice A"]

(* C7: every logout leaves neither username nor fullname in the store and  *)
(* shows the login screen; a process started after a logout, with no login *)
(* in between, shows the login screen.                                     *)
C7_LogoutClearsSession ==
    /\ ev.op = "on_logout_clicked" =>
          /\ "username" \notin DOMAIN store
          /\ "fullname" \notin DOMAIN store
          /\ running /\ window = "LoginWindow"
    /\ (ev.op = "main" /\ logged_out) => window = "LoginWindow"

C7_Witness ==
    /\ ev.op = "main"
    /\ logged_out
    /\ store = EmptyStore

(* C8: a login submit whose user id is empty after trimming issues no      *)
(* remote call, writes nothing to the store and stays on the login screen. *)
C8_EmptyUserIdRejectedLocally ==
    [][(ev'.op = "on_login_clicked" /\ AllWhitespace(ev'.input)) =>
            /\ ev'.calls = <<>>
            /\ ev'.ret = <<>>
            /\ store' = store
            /\ running' /\ window' = "LoginWindow"]_vars

C8_Witness ==
    /\ ev.op = "on_login_clicked"
    /\ ev.input = <<" ", " ">>

(* C9: a task submit whose normalized input is not 10 characters long      *)
(* issues no remote call, starts no countdown and stays on the task        *)
(* screen.                                                                 *)
C9_BadLengthRejectedLocally ==
    [][(ev'.op = "on_start_clicked"
          /\ Len(upper(strip(ev'.input))) # TaskIdLen) =>
            /\ ev'.calls = <<>>
            /\ ev'.ret = <<>>
            /\ NoCountdown'
            /\ validated' = validated
            /\ store' = store
            /\ running' /\ window' = "TaskWindow"]_vars

C9_Witness ==
    /\ ev.op = "on_start_clicked"
    /\ Len(ev.input) = TaskIdLen - 1

(* C10: a countdown started with n > 0 emits its completion notification   *)
(* once, and does so: the timer ticks n times, the n-th tick stops the     *)
(* timer and arms the one-second delay, and the delay emits; no tick fires *)
(* once the timer is stopped and nothing is emitted before the n-th tick.  *)
C10_CompletionOnceAfterNTicks ==
    /\ [](cd_duration >= 1 /\ cd_emitted <= 1)
    /\ [](timer_active => (cd_ticks < cd_duration /\ cd_emitted = 0 /\ ~go_pending))
    /\ [](go_pending => (cd_ticks = cd_duration /\ cd_emitted = 0))
    /\ [](cd_emitted = 1 => (cd_ticks = cd_duration /\ ~timer_active /\ ~go_pending))
    /\ [][cd_ticks' # cd_ticks => (timer_active /\ cd_ticks' = cd_ticks + 1)]_vars
    /\ [][cd_emitted' # cd_emitted => (go_pending /\ cd_ticks' = cd_ticks)]_vars
    /\ <>(cd_emitted = 1)

C10_Witness ==
    /\ cd_duration = CountdownStart
    /\ cd_ticks = CountdownStart
    /\ cd_emitted = 1

-----------------------------------------------------------------------------
(* The application under the scheduling Qt gives its timers: while the     *)
(* event loop runs, an armed QTimer eventually times out and a pending     *)
(* singleShot eventually fires. Quit stays available from the tray menu.   *)

SpecFair ==
    /\ Init
    /\ [][Next]_vars
    /\ WF_vars(update_timer)
    /\ WF_vars(\E exists \in BOOLEAN, popen_ok \in BOOLEAN :
                   finish_countdown(exists, popen_ok))

CountdownStarted == window = "TimerWindow"

(* C11 as stated: nothing cancels or abandons a started countdown, that is *)
(* the timer window is left only by the completion of the countdown.       *)
C11_NothingAbandonsCountdown ==
    [][CountdownStarted => (CountdownStarted' \/ ev'.op = "finish_countdown")]_vars

(* C11: once the countdown has started, under fair scheduling of the timer *)
(* either the launcher is eventually invoked or the application has been   *)
(* quit from the tray menu; quitting is the only step that abandons a      *)
(* started countdown, every other step of a countdown is a tick or its     *)
(* completion, and the launcher receives the task id the countdown was     *)
(* started for.                                                            *)
C11_CountdownCompletesUnlessQuit ==
    /\ CountdownStarted ~> (LauncherCalled \/ ~running)
    /\ [][CountdownStarted =>
            ev'.op \in {"update_timer", "finish_countdown", "quit"}]_vars
    /\ [][(CountdownStarted /\ ~CountdownStarted' /\ ~LauncherCalled') =>
            (ev'.op = "quit" /\ ~running')]_vars
    /\ [][(ev'.op = "finish_countdown" /\ ev'.argv # <<>>) =>
            (ev'.argv[1] = lambda_task_id /\ validated # NoPair
             /\ ev'.argv[1] = validated[2])]_vars

C11_Witness ==
    /\ ev.op = "finish_countdown"
    /\ ev.launcher = "spawn_failed"
    /\ cd_ticks = CountdownStart
    /\ running

CountdownActive == timer_active \/ go_pending

(* C12: while a countdown is active only the timer window is on screen, so *)
(* every step is a tick, the completion or a quit: no login submit, no     *)
(* edit, no task submit and no logout. A countdown is started only when    *)
(* none is active, so at most one is active at a time, and the completion  *)
(* step is taken alone: it touches neither the store nor the input field.  *)
C12_NoOtherTransitionDuringCountdown ==
    /\ [](CountdownActive => (running /\ window = "TimerWindow"))
    /\ [](~(timer_active /\ go_pending))
    /\ [][CountdownActive =>
            ev'.op \in {"update_timer", "finish_countdown", "quit"}]_vars
    /\ [][(ev'.op = "on_start_clicked" /\ CountdownActive') =>
            (~CountdownActive /\ window = "TaskWindow")]_vars
    /\ [][ev'.op = "finish_countdown" =>
            (go_pending /\ ~CountdownActive' /\ store' = store
             /\ task_id_input' = task_id_input /\ validated' = validated)]_vars

C12_Witness ==
    /\ go_pending
    /\ window = "TimerWindow"
    /\ ev.op = "update_timer"
    /\ cd_ticks = CountdownStart
    /\ task_id_input = TenA

LaunchFailed(e) == e.launcher \in {"not_found", "spawn_failed"}

(* C13 as stated: after a launch failure the controller is back on the     *)
(* task screen of the same session.                                        *)
C13_FailureReturnsToTaskWindow ==
    (ev.op = "finish_countdown" /\ LaunchFailed(ev)) =>
        (running /\ window = "TaskWindow" /\ Username # <<>>)

(* C13: when the recorder script is not found or cannot be spawned, the    *)
(* failure is reported in a message box, no process is counted as spawned, *)
(* the persisted session is unchanged and the launch is not retried: the   *)
(* process keeps running with no window and no countdown, and its only     *)
(* further step is quit.                                                   *)
C13_LaunchFailureReported ==
    /\ [][LaunchFailed(ev') =>
            /\ ev'.op = "finish_countdown"
            /\ ev'.box = "critical"
            /\ ev'.msg = (IF ev'.launcher = "not_found"
                          THEN "Recording script not found."
                          ELSE "Failed to start recording.")
            /\ launches' = launches
            /\ session_launches' = session_launches
            /\ store' = store
            /\ running' /\ window' = "none"
            /\ ~CountdownActive'
            /\ cd_emitted' = 1]_vars
    /\ [][(LaunchFailed(ev) /\ running) =>
            (ev'.op = "quit" /\ store' = store /\ launches' = launches)]_vars

C13_Witness ==
    /\ ev.op = "finish_countdown"
    /\ ev.launcher = "not_found"
    /\ ev.box = "critical"
    /\ window = "none"
    /\ Username # <<>>

(* C14: a process starts on the task screen exactly when the store holds a *)
(* non-empty username and on the login screen otherwise; starting and      *)
(* quitting leave the store alone, which only a login or a logout changes, *)
(* so a restart after a valid login with no logout in between opens the    *)
(* task screen on the user id and display name that login saved.           *)
C14_StartsFromPersistedSession ==
    /\ [][ev'.op = "main" =>
            /\ ~running /\ running'
            /\ store' = store
            /\ (window' = "TaskWindow") <=> (Username # <<>>)
            /\ (window' = "LoginWindow") <=> (Username = <<>>)
            /\ ~CountdownActive']_vars
    /\ [][store' # store =>
            ev'.op \in {"on_login_clicked", "on_logout_clicked"}]_vars
    /\ [][(ev'.op = "on_login_clicked" /\ ValidationPassed(ev')) =>
            store' = [username |-> ev'.calls[1].username,
                      fullname |-> ev'.ret[1].result]]_vars
    /\ [](ev.op = "main" /\ identity_valid =>
            (window = "TaskWindow" /\ DOMAIN store = {"username", "fullname"}))
    /\ [](ev.op = "main" /\ ~identity_valid => window = "LoginWindow")

C14_Witness ==
    /\ ev.op = "main"
    /\ window = "TaskWindow"
    /\ store = [username |-> <<"a", "a">>, fullname |-> "N/A"]
    /\ session_launches = 1

-----------------------------------------------------------------------------
(* The task screen of a logged-in user with a ten-character task id typed  *)
(* in, and the assignment check answered by any response, its flags taking *)
(* every kind of JSON value.                                               *)

InitTask ==
    \E u \in UserIds, f \in FullNames :
        /\ running = TRUE
        /\ window = "TaskWindow"
        /\ task_id_input = TenA
        /\ countdown_seconds = 0
        /\ timer_active = FALSE
        /\ go_pending = FALSE
        /\ lambda_task_id = <<>>
        /\ store = [username |-> u, fullname |-> f]
        /\ other_pc = "off"
        /\ other_fullname = ""
        /\ ev = Event("edit")
        /\ validated = NoPair
        /\ identity_valid = TRUE
        /\ cd_duration = 0
        /\ cd_ticks = 0
        /\ cd_emitted = 0
        /\ launches = 0
        /\ session_launches = 0
        /\ logged_out = FALSE

NextTask ==
    \/ \E resp \in Responses(WideAssignmentBodies) : on_start_clicked(resp)
    \/ update_timer
    \/ \E exists \in BOOLEAN, popen_ok \in BOOLEAN :
           finish_countdown(exists, popen_ok)

SpecTask == InitTask /\ [][NextTask]_vars

(* The last step was a task submit answered with a non-error HTTP status   *)
AnsweredOk(e) ==
    /\ e.op = "on_start_clicked"
    /\ e.resp # <<>>
    /\ e.resp[1].kind = "http"
    /\ e.resp[1].status_code = 200

Has(d, k) == k \in DOMAIN d
StatusSuccess(d) == Has(d, "status") /\ d.status = "success"
ErrorFlagSet(d) == Has(d, "error") /\ d.error = "true"
AssignedTrue(d) == Has(d, "is_assigned") /\ d.is_assigned \in {"true", "1"}

(* C15: when the assignment check is answered with a non-error status, the *)
(* outcome is Valid exactly when the body's status is "success", its error *)
(* flag is not set (absent, false or null) and its is_assigned flag is     *)
(* present and true (the JSON value true, or the number 1, which compares  *)
(* equal to True); a body without the flag, or with a false, null, zero or *)
(* string flag, is never Valid, and only a Valid outcome starts a          *)
(* countdown.                                                              *)
C15_ValidIffAllThreeConditions ==
    AnsweredOk(ev) =>
        LET d == ev.resp[1].data
        IN  /\ ValidationPassed(ev) <=>
                (StatusSuccess(d) /\ ~ErrorFlagSet(d) /\ AssignedTrue(d))
            /\ (~Has(d, "is_assigned")
                    \/ d.is_assigned \in {"false", None, "0", "yes"})
                 => ValidationFailed(ev)
            /\ ValidationPassed(ev) <=> (window = "TimerWindow")

C15_Witness ==
    /\ AnsweredOk(ev)
    /\ ValidationFailed(ev)
    /\ ev.resp[1].data = [status |-> "success", error |-> "false"]

-----------------------------------------------------------------------------
(* The task screen of a logged-in user whose keyboard gives lower-case and *)
(* upper-case letters, digits and spaces; the assignment check is down or  *)
(* accepts the task.                                                       *)

FieldChars == {"a", "A", "1", " "}

FieldResponses ==
    {r \in Responses(AssignmentBodies) :
        \/ r.kind = "exception"
        \/ r.data = [status |-> "success", is_assigned |-> "true"]}

InitField ==
    /\ running = TRUE
    /\ window = "TaskWindow"
    /\ task_id_input = <<>>
    /\ countdown_seconds = 0
    /\ timer_active = FALSE
    /\ go_pending = FALSE
    /\ lambda_task_id = <<>>
    /\ store = [username |-> <<"a">>, fullname |-> "Alice A"]
    /\ other_pc = "off"
    /\ other_fullname = ""
    /\ ev = Event("main")
    /\ validated = NoPair
    /\ identity_valid = TRUE
    /\ cd_duration = 0
    /\ cd_ticks = 0
    /\ cd_emitted = 0
    /\ launches = 0
    /\ session_launches = 0
    /\ logged_out = FALSE

NextField ==
    \/ \E c \in FieldChars : type_char(c)
    \/ backspace
    \/ \E resp \in FieldResponses : on_start_clicked(resp)
    \/ update_timer
    \/ \E exists \in BOOLEAN, popen_ok \in BOOLEAN :
           finish_countdown(exists, popen_ok)

SpecField == InitField /\ [][NextField]_vars

UpperCaseOrDigit == {"A", "1"}

WellFormedTaskId(t) ==
    /\ Len(t) = 10
    /\ \A i \in 1..Len(t) : t[i] \in UpperCaseOrDigit

(* C16: whatever was typed and deleted before the submit, every task id    *)
(* sent to the assignment check, kept for the launch or passed to the      *)
(* launcher has exactly 10 characters, each an upper-case letter or a      *)
(* digit.                                                                  *)
C16_SentTaskIdWellFormed ==
    /\ \A i \in 1..Len(ev.calls) :
           ev.calls[i].api = "check_task_assignment" =>
               WellFormedTaskId(ev.calls[i].T_ID)
    /\ ev.argv # <<>> => WellFormedTaskId(ev.argv[1])
    /\ lambda_task_id # <<>> => WellFormedTaskId(lambda_task_id)
    /\ validated # NoPair => WellFormedTaskId(validated[2])

C16_Witness ==
    /\ ev.op = "finish_countdown"
    /\ ev.launcher = "spawned"
    /\ ev.argv[1] = [i \in 1..10 |-> IF i % 2 = 1 THEN "1" ELSE "A"]

-----------------------------------------------------------------------------
(* The identity check was answered with an HTTP error status, or not at all *)
LoginAnsweredWithError(e) ==
    /\ e.op = "on_login_clicked"
    /\ e.resp # <<>>
    /\ \/ e.resp[1].kind = "exception"
       \/ e.resp[1].status_code \in ErrorStatusCodes

ErrorMessageOf(resp) ==
    IF resp.kind = "exception"
    THEN "Unable to connect to the server. Please try again later."
    ELSE CASE resp.status_code = 404 -> "User not found."
           [] resp.status_code = 401 -> "Unauthorized access."
           [] resp.status_code = 403 -> "Unauthorized access."
           [] OTHER -> "An error occurred while verifying the user."

(* C17: a login answered with an HTTP error status or with a transport     *)
(* failure is never Valid, whatever the body says: 404 gives "User not     *)
(* found.", 401 and 403 give "Unauthorized access.", any other error       *)
(* status gives the generic verification error, a transport failure gives  *)
(* "Unable to connect to the server. Please try again later."; the message *)
(* is shown, nothing is stored and the login window stays.                 *)
C17_ErrorAnswerNeverValid ==
    [][LoginAnsweredWithError(ev') =>
          /\ ValidationFailed(ev')
          /\ ev'.ret[1].result = ErrorMessageOf(ev'.resp[1])
          /\ ev'.msg = ErrorMessageOf(ev'.resp[1])
          /\ ev'.box = "warning"
          /\ store' = store
          /\ window = "LoginWindow" /\ window' = "LoginWindow"
          /\ identity_valid' = identity_valid]_vars

C17_Witness ==
    /\ ev.op = "on_login_clicked"
    /\ ev.resp # <<>>
    /\ ev.resp[1].status_code = 403
    /\ ev.resp[1].data = [status |-> "success"]
    /\ ev.msg = "Unauthorized access."
    /\ window = "LoginWindow"
    /\ Username = <<>>

-----------------------------------------------------------------------------
(* C18: in every reachable state, the intermediate states of a login or a  *)
(* logout and the states reached with a second instance included, the      *)
(* username key is present exactly when the fullname key is, and a stored  *)
(* username is not empty.                                                  *)
C18_SessionRecordWhole ==
    /\ ("username" \in DOMAIN store) <=> ("fullname" \in DOMAIN store)
    /\ "username" \in DOMAIN store => store.username # <<>>

-----------------------------------------------------------------------------
Tick == cd_ticks' = cd_ticks + 1

(* C19 as stated: every tick decrements countdown_seconds by one, and the  *)
(* countdown has stopped counting only with countdown_seconds at 0.        *)
C19_EveryTickDecrementsToZero ==
    /\ [][Tick => countdown_seconds' = countdown_seconds - 1]_vars
    /\ [](~timer_active => countdown_seconds = 0)

(* C19: every tick but the last decrements countdown_seconds by one; it    *)
(* never increases and never goes below 1; the countdown stops counting on *)
(* the tick that finds countdown_seconds at 1, which leaves it at 1, and   *)
(* that is the tick number n of a countdown started at n.                  *)
C19_TicksDecrementDownToOne ==
    /\ [][Tick =>
            /\ timer_active
            /\ IF countdown_seconds > 1
               THEN /\ countdown_seconds' = countdown_seconds - 1
                    /\ timer_active' /\ ~go_pending'
               ELSE /\ countdown_seconds' = countdown_seconds
                    /\ ~timer_active' /\ go_pending'
                    /\ cd_ticks' = cd_duration]_vars
    /\ [][countdown_seconds' <= countdown_seconds]_vars
    /\ [][countdown_seconds' # countdown_seconds => Tick]_vars
    /\ [](countdown_seconds >= 1)
    /\ [](countdown_seconds + cd_ticks \in {cd_duration, cd_duration + 1})
    /\ [](~timer_active => countdown_seconds = 1)

C19_Witness ==
    /\ ev.op = "update_timer"
    /\ ~timer_active
    /\ go_pending
    /\ countdown_seconds = 1
    /\ cd_duration = MaxDuration
    /\ cd_ticks = MaxDuration

-----------------------------------------------------------------------------
AssignedFalseOrAbsent(d) ==
    ~Has(d, "is_assigned") \/ d.is_assigned \in {"false", None, "0"}

RejectionMessage(d) ==
    IF Has(d, "message") THEN d.message
    ELSE IF AssignedFalseOrAbsent(d)
    THEN "Task is not assigned to the user."
    ELSE "Task assignment check failed or invalid response."

(* C20: when the assignment check is answered with a non-error status and  *)
(* the outcome is not Valid, the message shown is the one of the response  *)
(* when it carries one; otherwise "Task is not assigned to the user." when *)
(* is_assigned is false or absent, and the generic assignment-failure      *)
(* message when is_assigned is set; the task window stays, no countdown    *)
(* starts and the store is unchanged.                                      *)
C20_RejectionMessage ==
    [][(AnsweredOk(ev') /\ ValidationFailed(ev')) =>
          /\ ev'.ret[1].result = RejectionMessage(ev'.resp[1].data)
          /\ ev'.msg = RejectionMessage(ev'.resp[1].data)
          /\ ev'.box = "critical"
          /\ window = "TaskWindow" /\ window' = "TaskWindow"
          /\ ~CountdownActive'
          /\ store' = store
          /\ task_id_input' = task_id_input]_vars

C20_Witness ==
    /\ AnsweredOk(ev)
    /\ ev.resp[1].data = [status |-> "error", is_assigned |-> "true"]
    /\ ev.msg = "Task assignment check failed or invalid response."
    /\ window = "TaskWindow"

-----------------------------------------------------------------------------
(* The task screen of a logged-in user with a ten-character task id typed  *)
(* in, while a second instance of the application starts on the same       *)
(* store, logs out and logs in again.                                      *)

NextTaskShared ==
    \/ \E resp \in Responses(AssignmentBodies) : on_start_clicked(resp)
    \/ update_timer
    \/ \E exists \in BOOLEAN, popen_ok \in BOOLEAN :
           finish_countdown(exists, popen_ok)
    \/ OtherNext

SpecTaskShared == InitTask /\ [][NextTaskShared]_vars

(* C21: a task submit with a well-formed ten-character task id, made while *)
(* the store holds no username (another instance logged out behind the     *)
(* task screen), issues no remote call, starts no countdown, launches      *)
(* nothing, leaves the store as it is and shows the error "User ID not     *)
(* found. Please login again."; the task window stays.                     *)
C21_SubmitWithoutSessionRejected ==
    [][(/\ ev'.op = "on_start_clicked"
        /\ WellFormedTaskId(ev'.input)
        /\ Username = <<>>) =>
          /\ ev'.calls = <<>>
          /\ ev'.resp = <<>>
          /\ ev'.ret = <<>>
          /\ ev'.box = "critical"
          /\ ev'.msg = "User ID not found. Please login again."
          /\ ev'.launcher = "none"
          /\ launches' = launches
          /\ ~CountdownActive'
          /\ UNCHANGED <<timer_vars, cd_vars, validated>>
          /\ store' = store
          /\ window' = "TaskWindow"]_vars

C21_Witness ==
    /\ ev.op = "on_start_clicked"
    /\ ev.input = TenA
    /\ ev.msg = "User ID not found. Please login again."
    /\ Username = <<>>
    /\ window = "TaskWindow"
    /\ other_pc \in {"remove_fullname", "LoginWindow"}

====
